---- MODULE Spec2Model ----
(***************************************************************************)
(* elekter: a daily electricity spot-price series is turned into a         *)
(* per-slot ON/OFF decision for each configured device                     *)
(* (satisfy_constraints), and the scheduler loop of main walks the series  *)
(* in wall-clock time and runs cmd_on / cmd_off for every device.          *)
(*                                                                         *)
(* Modelling conventions                                                   *)
(*  - Option<T>: None is the empty sequence <<>>, Some(x) is <<x>>.        *)
(*  - NotNan<f32> prices, thresholds and grid rates are integers; a ratio  *)
(*    in [0,1] is an exact fraction <<num, den>>, so floor and ceil of     *)
(*    ratio * window_size are exact.                                       *)
(*  - Instants (timestamps, the wall clock) are integer ticks of UTC; a    *)
(*    calendar day is TicksPerDay ticks; local time in the reference       *)
(*    timezone is TzOffset ticks ahead of UTC (no daylight saving), and    *)
(*    local tick 0 is a Monday 00:00.                                      *)
(*  - A panic (integer division by zero, slice::windows(0)) is the status  *)
(*    "panic" of the result: the function does not return.                 *)
(***************************************************************************)
EXTENDS Integers, Sequences, FiniteSets, TLC

\* ------------------------------------------------------------------ bounds
\* longest price series the solver is applied to
MaxLen == 4
\* prices are drawn from 1..MaxPrice
MaxPrice == 3
\* window durations are drawn from 1..MaxWindow seconds (ticks)
MaxWindow == 5

\* sampling intervals of the series given to the solver
Intervals == {1, 2}
\* ratio_min / ratio_max values, each <<num, den>> within [0, 1]
Ratios == {<<0, 1>>, <<1, 3>>, <<1, 2>>, <<1, 1>>}

\* ------------------------------------------------------------------ Option
None == <<>>
Some(x) == <<x>>
IsSome(o) == o /= <<>>
Unwrap(o) == o[1]
OptionOf(S) == {None} \cup {Some(x) : x \in S}

\* ------------------------------------------------------------------ types
\* struct Price { timestamp, price }
Price(t, p) == [timestamp |-> t, price |-> p]

\* struct Device { threshold, ratio_min, ratio_max, window } (cmd_on and
\* cmd_off are the two kinds of command, "on" and "off")
Device(th, rmin, rmax, win) ==
    [threshold |-> th, ratio_min |-> rmin, ratio_max |-> rmax, window |-> win]

\* ratio_min > ratio_max on fractions
RatioGt(a, b) == a[1] * b[2] > b[1] * a[2]

\* validate_constraints: TRUE iff the device is accepted (Ok(()))
validate_constraints(v) ==
    IF IsSome(v.window) /\ (~IsSome(v.ratio_min) /\ ~IsSome(v.ratio_max))
    THEN FALSE
    ELSE IF ~IsSome(v.threshold) /\ IsSome(v.ratio_max)
    THEN FALSE
    ELSE IF IsSome(v.ratio_min) /\ IsSome(v.ratio_max)
            /\ RatioGt(Unwrap(v.ratio_min), Unwrap(v.ratio_max))
    THEN FALSE
    ELSE TRUE

\* ------------------------------------------------------------------ solver
\* mutant: the cap rounded up instead of down
FloorMulRoundsUp(ratio, n) == (ratio[1] * n + ratio[2] - 1) \div ratio[2]
\* (ratio * window_size as f32).floor() as usize
FloorMul(ratio, n) == (ratio[1] * n) \div ratio[2]
\* mutant: the need truncated instead of rounded up
CeilMulTruncates(ratio, n) == (ratio[1] * n) \div ratio[2]
\* (ratio * window_size as f32).ceil() as usize
CeilMul(ratio, n) == (ratio[1] * n + ratio[2] - 1) \div ratio[2]

\* prices.first(), prices.last()
First(prices) == prices[1]
Last(prices) == prices[Len(prices)]

\* the divisor prices.len() - 1 is zero: the division panics
IntervalPanics(prices) == Len(prices) - 1 = 0
\* (last.timestamp - first.timestamp) as usize / (prices.len() - 1)
Interval(prices) ==
    (Last(prices).timestamp - First(prices).timestamp) \div (Len(prices) - 1)

\* computing interval and window_size panics: len - 1 = 0, or a window is
\* configured and interval = 0
WindowSizePanics(prices, device) ==
    \/ IntervalPanics(prices)
    \/ IsSome(device.window) /\ Interval(prices) = 0
\* device.window.map(|dur| dur.as_secs() as usize / interval)
\*              .unwrap_or(prices.len())
WindowSize(prices, device) ==
    IF IsSome(device.window)
    THEN Unwrap(device.window) \div Interval(prices)
    ELSE Len(prices)

\* mutant: a size above the length is clamped to the whole series
WindowsClamped(seq, size) ==
    LET s == IF size > Len(seq) THEN Len(seq) ELSE size
    IN  [i \in 1..(Len(seq) - s + 1) |-> SubSeq(seq, i, i + s - 1)]
\* slice::windows(size), size > 0: the Len - size + 1 contiguous windows in
\* order (none when size > Len)
Windows(seq, size) ==
    [i \in 1..(IF size > Len(seq) THEN 0 ELSE Len(seq) - size + 1)
        |-> SubSeq(seq, i, i + size - 1)]

\* mutant: p goes before the elements of its own price (ties in reverse order)
RECURSIVE InsertByPriceBeforeEqual(_, _)
InsertByPriceBeforeEqual(sorted, p) ==
    IF sorted = <<>> THEN <<p>>
    ELSE IF sorted[Len(sorted)].price < p.price THEN Append(sorted, p)
    ELSE Append(InsertByPriceBeforeEqual(SubSeq(sorted, 1, Len(sorted) - 1), p),
                sorted[Len(sorted)])

\* stable insertion of p into a sequence sorted by price: p goes after every
\* element whose price is less than or equal to its own
RECURSIVE InsertByPrice(_, _)
InsertByPrice(sorted, p) ==
    IF sorted = <<>> THEN <<p>>
    ELSE IF sorted[Len(sorted)].price <= p.price THEN Append(sorted, p)
    ELSE Append(InsertByPrice(SubSeq(sorted, 1, Len(sorted) - 1), p),
                sorted[Len(sorted)])

\* window.iter().sorted_by_key(|p| p.price): stable sort, ascending price
RECURSIVE SortedByPrice(_)
SortedByPrice(window) ==
    IF window = <<>> THEN <<>>
    ELSE InsertByPrice(SortedByPrice(SubSeq(window, 1, Len(window) - 1)),
                       window[Len(window)])

\* .skip(n) and .take(n) of an iterator
Skip(seq, n) == SubSeq(seq, n + 1, Len(seq))
Take(seq, n) == SubSeq(seq, 1, IF n < Len(seq) THEN n ELSE Len(seq))
Timestamps(seq) == {seq[i].timestamp : i \in 1..Len(seq)}

\* mutant: a slot priced exactly at the threshold is left out
ThresholdPassStrict(prices, threshold) ==
    {prices[i].timestamp : i \in {j \in 1..Len(prices) : prices[j].price < threshold}}
\* threshold pass: insert the timestamp of every p with p.price <= threshold
ThresholdPass(prices, threshold) ==
    {prices[i].timestamp : i \in {j \in 1..Len(prices) : prices[j].price <= threshold}}

\* ratio_max loop: for each window in order, remove the timestamps ranked
\* beyond max_enable_per_window
RECURSIVE RemoveLoop(_, _, _, _)
RemoveLoop(enabled, windows, k, max_enable_per_window) ==
    IF k > Len(windows) THEN enabled
    ELSE RemoveLoop(
            enabled \ Timestamps(Skip(SortedByPrice(windows[k]), max_enable_per_window)),
            windows, k + 1, max_enable_per_window)

\* ratio_min loop: for each window in order, insert the timestamps of the
\* enable_per_window cheapest
RECURSIVE InsertLoop(_, _, _, _)
InsertLoop(enabled, windows, k, enable_per_window) ==
    IF k > Len(windows) THEN enabled
    ELSE InsertLoop(
            enabled \cup Timestamps(Take(SortedByPrice(windows[k]), enable_per_window)),
            windows, k + 1, enable_per_window)

\* a pass over the windows panics: window_size cannot be computed, or
\* windows(0) is called
PassPanics(prices, device) ==
    \/ WindowSizePanics(prices, device)
    \/ WindowSize(prices, device) = 0

RatioMaxPass(enabled, prices, device) ==
    LET window_size == WindowSize(prices, device)
        max_enable_per_window == FloorMul(Unwrap(device.ratio_max), window_size)
    IN  RemoveLoop(enabled, Windows(prices, window_size), 1, max_enable_per_window)

\* mutant: the ratio-min pass starts from an empty set
RatioMinPassFresh(enabled, prices, device) ==
    LET window_size == WindowSize(prices, device)
        enable_per_window == CeilMul(Unwrap(device.ratio_min), window_size)
    IN  InsertLoop({}, Windows(prices, window_size), 1, enable_per_window)

RatioMinPass(enabled, prices, device) ==
    LET window_size == WindowSize(prices, device)
        enable_per_window == CeilMul(Unwrap(device.ratio_min), window_size)
    IN  InsertLoop(enabled, Windows(prices, window_size), 1, enable_per_window)

Returned(set) == [status |-> "ok", enabled |-> set]
Panicked == [status |-> "panic", enabled |-> {}]

\* the set after the `if let Some(threshold)` block, or a panic inside it
AfterThreshold(prices, device) ==
    IF IsSome(device.threshold)
    THEN LET enabled == ThresholdPass(prices, Unwrap(device.threshold))
         IN  IF IsSome(device.ratio_max)
             THEN IF PassPanics(prices, device) THEN Panicked
                  ELSE Returned(RatioMaxPass(enabled, prices, device))
             ELSE Returned(enabled)
    ELSE Returned({})

\* mutant: the ratio-max pass runs last, after the ratio-min pass
satisfy_constraints_max_last(prices, device) ==
    LET threshold_set == IF IsSome(device.threshold)
                         THEN ThresholdPass(prices, Unwrap(device.threshold))
                         ELSE {}
        cap == IsSome(device.threshold) /\ IsSome(device.ratio_max)
    IN  IF (cap \/ IsSome(device.ratio_min)) /\ PassPanics(prices, device)
        THEN Panicked
        ELSE LET after_min == IF IsSome(device.ratio_min)
                              THEN RatioMinPass(threshold_set, prices, device)
                              ELSE threshold_set
             IN  Returned(IF cap THEN RatioMaxPass(after_min, prices, device)
                          ELSE after_min)

\* fn satisfy_constraints(prices, device) -> BTreeSet<DateTime<Utc>>
satisfy_constraints(prices, device) ==
    LET first == AfterThreshold(prices, device)
    IN  IF first.status = "panic" THEN Panicked
        ELSE IF IsSome(device.ratio_min)
        THEN IF PassPanics(prices, device) THEN Panicked
             ELSE Returned(RatioMinPass(first.enabled, prices, device))
        ELSE first

\* ------------------------------------------------------------------ grid rate
\* one calendar day of the reference timezone, in ticks
TicksPerDay == 3
\* the clock is followed up to MaxTime, and so are the days that start
\* before it
MaxTime == 8
\* Europe/Tallinn is ahead of UTC
TzOffset == 1

\* with_timezone(&Tallinn): the local time of a UTC instant
Local(t) == t + TzOffset
\* .hour() of a local time counted in ticks, per_day ticks to the day
HourOfDay(local_time, per_day) == ((local_time % per_day) * 24) \div per_day
\* .weekday().number_from_monday() of a local time: 1 = Monday .. 7 = Sunday
Weekday(local_time, per_day) == ((local_time \div per_day) % 7) + 1
\* local_time.hour() of a timestamp
LocalHour(t) == HourOfDay(Local(t), TicksPerDay)
\* local_time.weekday().number_from_monday(): 1 = Monday .. 7 = Sunday
NumberFromMonday(t) == Weekday(Local(t), TicksPerDay)

\* mutant: the day rate still applies in the hour from 22:00
current_grid_until_23(local_time_hour, number_from_monday, package) ==
    IF (7 <= local_time_hour /\ local_time_hour <= 22) /\ number_from_monday < 6
    THEN package.day
    ELSE package.night

\* let current_grid = if (7..22).contains(&local_time_hour)
\*                        && local_time.weekday().number_from_monday() < 6
\*                    { package.day } else { package.night }
current_grid(local_time_hour, number_from_monday, package) ==
    IF (7 <= local_time_hour /\ local_time_hour < 22) /\ number_from_monday < 6
    THEN package.day
    ELSE package.night

\* fn add_grid_rate for timestamps counted in ticks of which per_day make a
\* day, in a timezone utc_offset ticks ahead of UTC
add_grid_rate_in(price, package, per_day, utc_offset) ==
    LET local_time == price.timestamp + utc_offset
    IN  [price EXCEPT !.price = price.price
            + current_grid(HourOfDay(local_time, per_day),
                           Weekday(local_time, per_day), package)]

\* fn add_grid_rate(price, package) -> Price, on the scheduler's clock
add_grid_rate(price, package) ==
    add_grid_rate_in(price, package, TicksPerDay, TzOffset)

\* ------------------------------------------------------------------ state
VARIABLES
    \* satisfy_constraints applied to one input
    prices,           \* the series it is given
    device,           \* the device it is given
    ret,              \* its result, NotCalled before the call
    \* add_grid_rate applied to one hourly price
    grid,             \* the input, the zone's offset and the result
    \* main
    dry_run,          \* opt.dry_run
    devices,          \* conf.devices, in the BTreeMap's key order
    package,          \* conf.package
    now,              \* the wall clock, SystemTime::now() / Utc::now()
    start_time,       \* the wall clock when the process started
    pc,               \* where main is
    day,              \* the loop variable: local midnight of the day
    market_prices,    \* what fetch_prices returned for the day
    consumer_prices,  \* market_prices with the grid rate added
    thresholds,       \* per device, its enabled set for the day
    slot,             \* position of `price` in consumer_prices
    dev,              \* position of the inner loop in thresholds, 0 outside it
    exit_code,        \* the exit code on the last line printed, None when
                      \* that line is not an exit line
    \* what the process has done so far
    fetched,          \* the days given to fetch_prices, in order
    reports,          \* the timestamps of the slot lines printed, in order
    dev_reports,      \* the device lines printed, in order
    commands,         \* the commands executed, in order
    skipped,          \* the timestamps skipped as past
    sleeps            \* the number of calls of thread::sleep

solverVars == <<prices, device, ret>>
confVars == <<dry_run, devices, package, start_time>>
dayVars == <<day, market_prices, consumer_prices, thresholds>>
logVars == <<fetched, reports, dev_reports, commands, skipped, sleeps>>
mainVars == <<confVars, now, pc, dayVars, slot, dev, exit_code, logVars>>
vars == <<solverVars, grid, mainVars>>

\* ------------------------------------------------------------------ inputs
\* uniformly spaced, chronological series of 1..MaxLen slots starting at 0
SeriesOf(n, interval) ==
    {[i \in 1..n |-> Price((i - 1) * interval, f[i])] : f \in [1..n -> 1..MaxPrice]}
PriceSeries == UNION {SeriesOf(n, iv) : n \in 1..MaxLen, iv \in Intervals}

\* the devices the configuration accepts (ranges by #[validate(range)],
\* consistency by validate_constraints)
Devices ==
    {d \in {Device(th, rmin, rmax, win) :
                th \in OptionOf(1..MaxPrice), rmin \in OptionOf(Ratios),
                rmax \in OptionOf(Ratios), win \in OptionOf(1..MaxWindow)} :
        validate_constraints(d)}

NotCalled == [status |-> "not called", enabled |-> {}]

\* main is not running in the specification of the solver
\* add_grid_rate is not under test
GridIdle == [point |-> Price(0, 0), package |-> [day |-> 0, night |-> 0],
             utc_offset |-> 0, adjusted |-> None]
MainIdle ==
    /\ dry_run = TRUE /\ devices = <<>> /\ package = [day |-> 0, night |-> 0]
    /\ now = 0 /\ start_time = 0 /\ pc = "Idle" /\ day = 0
    /\ market_prices = <<>> /\ consumer_prices = <<>> /\ thresholds = <<>>
    /\ slot = 0 /\ dev = 0 /\ exit_code = None
    /\ fetched = <<>> /\ reports = <<>> /\ dev_reports = <<>>
    /\ commands = <<>> /\ skipped = {} /\ sleeps = 0

\* ------------------------------------------------------------------ solver spec
SolverInit ==
    /\ prices \in PriceSeries
    /\ device \in Devices
    /\ ret = NotCalled
    /\ grid = GridIdle
    /\ MainIdle

\* one call of satisfy_constraints(prices, device)
Call ==
    /\ ret = NotCalled
    /\ ret' = satisfy_constraints(prices, device)
    /\ UNCHANGED <<prices, device, grid, mainVars>>

SolverNext == Call
SolverSpec == SolverInit /\ [][SolverNext]_vars

\* ------------------------------------------------------- the grid rate
\* Timestamps here are whole hours since a Monday 00:00 UTC, over one week.
HourlyTimestamps == 0..(7 * 24 - 1)
\* Europe/Tallinn is two hours ahead of UTC in winter, three in summer
TallinnOffsets == {2, 3}
\* conf.package: a tariff with a dearer day and one with a dearer night
GridPackages == {[day |-> 2, night |-> 1], [day |-> 1, night |-> 3]}

GridInit ==
    /\ grid \in [point : {Price(t, p) : t \in HourlyTimestamps, p \in 0..MaxPrice},
                 package : GridPackages,
                 utc_offset : TallinnOffsets,
                 adjusted : {None}]
    /\ prices = <<>> /\ device = Device(None, None, None, None) /\ ret = NotCalled
    /\ MainIdle

\* one call of add_grid_rate(&price, &package)
GridApply ==
    /\ grid.adjusted = None
    /\ grid' = [grid EXCEPT !.adjusted =
                    Some(add_grid_rate_in(grid.point, grid.package, 24, grid.utc_offset))]
    /\ UNCHANGED <<solverVars, mainVars>>

GridNext == GridApply
GridSpec == GridInit /\ [][GridNext]_vars

\* ------------------------------------------------------------------ main: inputs
\* the two configured devices, in the key order of conf.devices
DeviceNames == <<"boiler", "pump">>
\* the device configurations main is run with
MainDevices ==
    { Device(Some(3), None, None, None),
      Device(None, Some(<<1, 2>>), None, Some(2)),
      Device(Some(3), None, Some(<<1, 2>>), None) }
Confs ==
    {c \in [1..Len(DeviceNames) -> MainDevices] :
        c[1] /= c[2] /\ IsSome(c[1].threshold)}
\* conf.package
Packages == {[day |-> 2, night |-> 1]}
\* the process starts during the second UTC day of the time line
StartTimes == TicksPerDay..(2 * TicksPerDay - 1)

\* with_timezone(&Tallinn).with_time(NaiveTime::MIN): the instant of the
\* local midnight that starts the local day containing t
Midnight(t) == (Local(t) \div TicksPerDay) * TicksPerDay - TzOffset
\* mutant: the iterator starts at the next midnight
FirstDayTomorrow(t) == Midnight(t) + TicksPerDay
\* the first value of the iterator: Utc::now().with_timezone(&Tallinn)
\*                                    .with_time(NaiveTime::MIN)
FirstDay(t) == Midnight(t)
\* mutant: the successor is the same day again
AddDaySame(d) == d
\* d.checked_add_days(Days::new(1))
AddDay(d) == d + TicksPerDay
\* day.with_time(24 * 60 * 60 - 1 seconds from midnight)
LastSecond(d) == d + TicksPerDay - 1

\* the price curves of the market: the raw price at instant t
MarketCurves == {"odd dear", "odd cheap"}
MarketPrice(curve, t) ==
    IF curve = "odd dear" THEN 1 + (t % 2) ELSE 2 - (t % 2)

\* the responses of the market for [start, end]: a slot per tick of the
\* range, or a single slot at its start
MarketResponses(start, end) ==
    {[i \in 1..(end - start + 1) |-> Price(start + i - 1, MarketPrice(c, start + i - 1))] :
        c \in MarketCurves}
    \cup {<<Price(start, MarketPrice(c, start))>> : c \in MarketCurves}

\* the exit codes a launched command can end with: 0, non-zero, none
ExitCodes == {Some(0), Some(1), None}

\* mutant: no instant counts as past
NotPastAlways(t, clock) == TRUE
\* sys_time.duration_since(SystemTime::now()) is Ok(dur)
NotPast(t, clock) == t >= clock

\* ------------------------------------------------------------------ main: actions
MainInit ==
    /\ dry_run \in BOOLEAN
    /\ devices \in Confs
    /\ package \in Packages
    /\ start_time \in StartTimes
    /\ now = start_time
    /\ pc = "Start"
    /\ day = 0
    /\ market_prices = <<>> /\ consumer_prices = <<>> /\ thresholds = <<>>
    /\ slot = 0 /\ dev = 0 /\ exit_code = None
    /\ fetched = <<>> /\ reports = <<>> /\ dev_reports = <<>>
    /\ commands = <<>> /\ skipped = {} /\ sleeps = 0
    /\ prices = <<>> /\ device = Device(None, None, None, None) /\ ret = NotCalled
    /\ grid = GridIdle

\* the iterator of days is created: day is today's midnight
Begin ==
    /\ pc = "Start"
    /\ day' = FirstDay(now)
    /\ pc' = "Fetching"
    /\ UNCHANGED <<solverVars, grid, confVars, now, market_prices, consumer_prices,
                   thresholds, slot, dev, exit_code, logVars>>

\* fetch_prices(&day, &end of day) returns a series
Fetch ==
    /\ pc = "Fetching"
    /\ day < MaxTime
    /\ \E response \in MarketResponses(day, LastSecond(day)) :
        market_prices' = response
    /\ fetched' = Append(fetched, day)
    /\ pc' = "Adjusting"
    /\ UNCHANGED <<solverVars, grid, confVars, now, day, consumer_prices, thresholds,
                   slot, dev, exit_code, reports, dev_reports, commands,
                   skipped, sleeps>>

\* fetch_prices returns Err: main returns it
FetchFails ==
    /\ pc = "Fetching"
    /\ day < MaxTime
    /\ fetched' = Append(fetched, day)
    /\ pc' = "Failed"
    /\ UNCHANGED <<solverVars, grid, confVars, now, dayVars, slot, dev, exit_code,
                   reports, dev_reports, commands, skipped, sleeps>>

\* consumer_prices = market_prices.map(|p| add_grid_rate(&p, &conf.package))
Adjust ==
    /\ pc = "Adjusting"
    /\ consumer_prices' =
        [i \in 1..Len(market_prices) |-> add_grid_rate(market_prices[i], package)]
    /\ pc' = "Solving"
    /\ UNCHANGED <<solverVars, grid, confVars, now, day, market_prices, thresholds,
                   slot, dev, exit_code, logVars>>

\* thresholds = satisfy_constraints(&consumer_prices, constraints) for every
\* device; a panic in one of the calls ends the process
Solve ==
    /\ pc = "Solving"
    /\ LET solved == [k \in 1..Len(devices) |->
                        satisfy_constraints(consumer_prices, devices[k])]
       IN  IF \E k \in 1..Len(devices) : solved[k].status = "panic"
           THEN /\ pc' = "Panicked"
                /\ UNCHANGED <<thresholds, slot>>
           ELSE /\ thresholds' = [k \in 1..Len(devices) |-> solved[k].enabled]
                /\ slot' = 1
                /\ pc' = "Executing"
    /\ UNCHANGED <<solverVars, grid, confVars, now, day, market_prices,
                   consumer_prices, dev, exit_code, logVars>>

\* `for price in consumer_prices`, not dry_run, duration_since is Err:
\* continue with the next price
SkipSlot ==
    /\ pc = "Executing" /\ dev = 0
    /\ slot <= Len(consumer_prices)
    /\ ~dry_run
    /\ ~NotPast(consumer_prices[slot].timestamp, now)
    /\ skipped' = skipped \cup {consumer_prices[slot].timestamp}
    /\ slot' = slot + 1
    /\ UNCHANGED <<solverVars, grid, confVars, now, pc, dayVars, dev, exit_code,
                   fetched, reports, dev_reports, commands, sleeps>>

\* mutant: the slot is reported without sleeping until its instant
ReportSlotNoSleep ==
    /\ pc = "Executing" /\ dev = 0
    /\ slot <= Len(consumer_prices)
    /\ LET t == consumer_prices[slot].timestamp
       IN  /\ dry_run \/ NotPast(t, now)
           /\ sleeps' = IF dry_run THEN sleeps ELSE sleeps + 1
           /\ reports' = Append(reports, t)
    /\ exit_code' = None
    /\ dev' = 1
    /\ UNCHANGED <<solverVars, grid, confVars, now, pc, dayVars, slot,
                   fetched, dev_reports, commands, skipped>>

\* `for price in consumer_prices`: unless dry_run, sleep until the slot's
\* instant; print the slot line; enter the loop over the devices
ReportSlot ==
    /\ pc = "Executing" /\ dev = 0
    /\ slot <= Len(consumer_prices)
    /\ LET t == consumer_prices[slot].timestamp
       IN  /\ dry_run \/ NotPast(t, now)
           /\ IF dry_run
              THEN UNCHANGED <<now, sleeps>>
              ELSE /\ now' = t
                   /\ sleeps' = sleeps + 1
           /\ reports' = Append(reports, t)
    /\ exit_code' = None
    /\ dev' = 1
    /\ UNCHANGED <<solverVars, grid, confVars, pc, dayVars, slot,
                   fetched, dev_reports, commands, skipped>>

\* mutant: the two commands are swapped
CommandForSwapped(status) == IF status THEN "cmd_off" ELSE "cmd_on"
\* if status { dev_conf.cmd_on } else { dev_conf.cmd_off }
CommandFor(status) == IF status THEN "cmd_on" ELSE "cmd_off"

\* after the last device of a slot the outer loop takes the next price
AfterDevice(k) == IF k = Len(thresholds) THEN 0 ELSE k + 1

\* mutant: a command that ends without exit code 0 ends the process
DeviceStepStopsOnExit ==
    /\ pc = "Executing" /\ dev >= 1
    /\ LET t == consumer_prices[slot].timestamp
           status == t \in thresholds[dev]
       IN  /\ dev_reports' = Append(dev_reports,
                                    [dev_name |-> DeviceNames[dev], timestamp |-> t,
                                     status |-> status])
           /\ IF dry_run
              THEN /\ exit_code' = None
                   /\ UNCHANGED commands
              ELSE /\ commands' = Append(commands,
                                         [dev_name |-> DeviceNames[dev], timestamp |-> t,
                                          cmd |-> CommandFor(status)])
                   /\ exit_code' \in ExitCodes
    /\ IF ~dry_run /\ exit_code' /= Some(0)
       THEN pc' = "Failed" /\ UNCHANGED <<dev, slot>>
       ELSE /\ pc' = pc
            /\ dev' = AfterDevice(dev)
            /\ slot' = IF AfterDevice(dev) = 0 THEN slot + 1 ELSE slot
    /\ UNCHANGED <<solverVars, grid, confVars, now, dayVars, fetched,
                   reports, skipped, sleeps>>

\* mutant: a slot is taken out of the device's set once it has been acted on
DeviceStepConsumes ==
    /\ pc = "Executing" /\ dev >= 1
    /\ LET t == consumer_prices[slot].timestamp
           status == t \in thresholds[dev]
       IN  /\ dev_reports' = Append(dev_reports,
                                    [dev_name |-> DeviceNames[dev], timestamp |-> t,
                                     status |-> status])
           /\ thresholds' = [thresholds EXCEPT ![dev] = @ \ {t}]
           /\ IF dry_run
              THEN /\ exit_code' = None
                   /\ UNCHANGED commands
              ELSE /\ commands' = Append(commands,
                                         [dev_name |-> DeviceNames[dev], timestamp |-> t,
                                          cmd |-> CommandFor(status)])
                   /\ exit_code' \in ExitCodes
    /\ dev' = AfterDevice(dev)
    /\ slot' = IF AfterDevice(dev) = 0 THEN slot + 1 ELSE slot
    /\ UNCHANGED <<solverVars, grid, confVars, now, pc, day, market_prices,
                   consumer_prices, fetched, reports, skipped, sleeps>>

\* mutant: the devices are visited in the reverse of the key order
DeviceStepReversed ==
    /\ pc = "Executing" /\ dev >= 1
    /\ LET t == consumer_prices[slot].timestamp
           r == Len(thresholds) + 1 - dev
           status == t \in thresholds[r]
       IN  /\ dev_reports' = Append(dev_reports,
                                    [dev_name |-> DeviceNames[r], timestamp |-> t,
                                     status |-> status])
           /\ IF dry_run
              THEN /\ exit_code' = None
                   /\ UNCHANGED commands
              ELSE /\ commands' = Append(commands,
                                         [dev_name |-> DeviceNames[r], timestamp |-> t,
                                          cmd |-> CommandFor(status)])
                   /\ exit_code' \in ExitCodes
    /\ dev' = AfterDevice(dev)
    /\ slot' = IF AfterDevice(dev) = 0 THEN slot + 1 ELSE slot
    /\ UNCHANGED <<solverVars, grid, confVars, now, pc, dayVars, fetched,
                   reports, skipped, sleeps>>

\* one round of the loop over the devices: print the device line and, unless
\* dry_run, run cmd_on or cmd_off to completion and print its exit code if
\* it has one
DeviceStep ==
    /\ pc = "Executing" /\ dev >= 1
    /\ LET t == consumer_prices[slot].timestamp
           status == t \in thresholds[dev]
       IN  /\ dev_reports' = Append(dev_reports,
                                    [dev_name |-> DeviceNames[dev], timestamp |-> t,
                                     status |-> status])
           /\ IF dry_run
              THEN /\ exit_code' = None
                   /\ UNCHANGED commands
              ELSE /\ commands' = Append(commands,
                                         [dev_name |-> DeviceNames[dev], timestamp |-> t,
                                          cmd |-> CommandFor(status)])
                   /\ exit_code' \in ExitCodes
    /\ dev' = AfterDevice(dev)
    /\ slot' = IF AfterDevice(dev) = 0 THEN slot + 1 ELSE slot
    /\ UNCHANGED <<solverVars, grid, confVars, now, pc, dayVars, fetched,
                   reports, skipped, sleeps>>

\* mutant: the launch error is dropped and the loop goes on
LaunchFailsIgnored ==
    /\ pc = "Executing" /\ dev >= 1
    /\ ~dry_run
    /\ LET t == consumer_prices[slot].timestamp
       IN  dev_reports' = Append(dev_reports,
                                 [dev_name |-> DeviceNames[dev], timestamp |-> t,
                                  status |-> t \in thresholds[dev]])
    /\ exit_code' = None
    /\ dev' = AfterDevice(dev)
    /\ slot' = IF AfterDevice(dev) = 0 THEN slot + 1 ELSE slot
    /\ UNCHANGED <<solverVars, grid, confVars, now, pc, dayVars,
                   fetched, reports, commands, skipped, sleeps>>

\* Command::new(cmd).args(args).output() is Err: the device line was printed,
\* no command ran, main returns the error
LaunchFails ==
    /\ pc = "Executing" /\ dev >= 1
    /\ ~dry_run
    /\ LET t == consumer_prices[slot].timestamp
       IN  dev_reports' = Append(dev_reports,
                                 [dev_name |-> DeviceNames[dev], timestamp |-> t,
                                  status |-> t \in thresholds[dev]])
    /\ exit_code' = None
    /\ pc' = "Failed"
    /\ UNCHANGED <<solverVars, grid, confVars, now, dayVars, slot, dev,
                   fetched, reports, commands, skipped, sleeps>>

\* mutant: no break, the loop goes on to the next day in dry_run too
FinishNoBreak ==
    /\ pc = "Executing" /\ dev = 0
    /\ slot > Len(consumer_prices)
    /\ dry_run
    /\ day' = day + TicksPerDay
    /\ pc' = "Fetching"
    /\ UNCHANGED <<solverVars, grid, confVars, now, market_prices, consumer_prices,
                   thresholds, slot, dev, exit_code, logVars>>

\* the series is exhausted and dry_run is set: break, main returns Ok(())
Finish ==
    /\ pc = "Executing" /\ dev = 0
    /\ slot > Len(consumer_prices)
    /\ dry_run
    /\ pc' = "Done"
    /\ UNCHANGED <<solverVars, grid, confVars, now, dayVars, slot, dev, exit_code, logVars>>

\* the series is exhausted and dry_run is not set: the iterator yields the
\* next day
NextDay ==
    /\ pc = "Executing" /\ dev = 0
    /\ slot > Len(consumer_prices)
    /\ ~dry_run
    /\ day' = AddDay(day)
    /\ pc' = "Fetching"
    /\ UNCHANGED <<solverVars, grid, confVars, now, market_prices, consumer_prices,
                   thresholds, slot, dev, exit_code, logVars>>

\* the wall clock advances while the process runs
Tick ==
    /\ pc \in {"Fetching", "Adjusting", "Solving", "Executing"}
    /\ now < MaxTime
    /\ now' = now + 1
    /\ UNCHANGED <<solverVars, grid, confVars, pc, dayVars, slot, dev, exit_code, logVars>>

\* a step of the process
Step ==
    \/ Begin \/ Fetch \/ FetchFails \/ Adjust \/ Solve
    \/ SkipSlot \/ ReportSlot \/ DeviceStep \/ LaunchFails
    \/ Finish \/ NextDay

Next == Step \/ Tick

Spec == MainInit /\ [][Next]_vars

\* ------------------------------------------------------------------ solver claims
\* floor and ceil of ratio * n, stated without the arithmetic of the code
FloorOf(ratio, n) ==
    CHOOSE k \in 0..n : k * ratio[2] <= ratio[1] * n /\ (k + 1) * ratio[2] > ratio[1] * n
CeilOf(ratio, n) ==
    CHOOSE k \in 0..n : k * ratio[2] >= ratio[1] * n /\ (k - 1) * ratio[2] < ratio[1] * n

\* the slots priced at or below the threshold
AtOrBelow(threshold) ==
    {prices[j].timestamp : j \in {i \in 1..Len(prices) : prices[i].price <= threshold}}
\* number of slots of the window starting at slot i whose timestamps are in the
\* returned set
EnabledIn(i, size) ==
    Cardinality({j \in i..(i + size - 1) : prices[j].timestamp \in ret.enabled})
\* the first slots of the sliding windows of the given size
WindowStarts(size) == 1..(Len(prices) - size + 1)

\* C1: when ratio_min is set and satisfy_constraints has returned, every
\* sliding window of window_size consecutive slots holds at least
\* ceil(ratio_min * window_size) slots of the returned set, whether or not
\* threshold and ratio_max are set.
C1_RatioMinGuarantee ==
    (ret.status = "ok" /\ IsSome(device.ratio_min)) =>
        LET size == WindowSize(prices, device)
        IN  \A i \in WindowStarts(size) :
                EnabledIn(i, size) >= CeilOf(Unwrap(device.ratio_min), size)

\* a returned set of a device with all three constraints, several windows, a
\* positive need, where the ratio-min pass added a slot
C1_Witness ==
    /\ ret.status = "ok"
    /\ IsSome(device.ratio_min) /\ IsSome(device.ratio_max) /\ IsSome(device.threshold)
    /\ WindowSize(prices, device) < Len(prices)
    /\ CeilOf(Unwrap(device.ratio_min), WindowSize(prices, device)) >= 1
    /\ ret.enabled /= AfterThreshold(prices, device).enabled

\* C2: a device with a threshold and no ratio gets exactly the slots priced at
\* or below the threshold.
C2_ThresholdOnlyExact ==
    (/\ ret /= NotCalled
     /\ IsSome(device.threshold)
     /\ ~IsSome(device.ratio_min) /\ ~IsSome(device.ratio_max)) =>
        /\ ret.status = "ok"
        /\ ret.enabled = AtOrBelow(Unwrap(device.threshold))

\* a threshold-only result with a slot priced exactly at the threshold (in the
\* set) and a slot priced above it (not in the set)
C2_Witness ==
    /\ ret.status = "ok"
    /\ IsSome(device.threshold)
    /\ ~IsSome(device.ratio_min) /\ ~IsSome(device.ratio_max)
    /\ \E i, j \in 1..Len(prices) :
        /\ prices[i].price = Unwrap(device.threshold)
        /\ prices[i].timestamp \in ret.enabled
        /\ prices[j].price > Unwrap(device.threshold)
        /\ prices[j].timestamp \notin ret.enabled

\* C3: with threshold and ratio_max set and ratio_min absent, the returned set
\* is within the threshold-pass set and every sliding window holds at most
\* floor(ratio_max * window_size) of its slots.
C3_RatioMaxCap ==
    (/\ ret.status = "ok"
     /\ IsSome(device.threshold) /\ IsSome(device.ratio_max)
     /\ ~IsSome(device.ratio_min)) =>
        LET size == WindowSize(prices, device)
        IN  /\ ret.enabled \subseteq AtOrBelow(Unwrap(device.threshold))
            /\ \A i \in WindowStarts(size) :
                EnabledIn(i, size) <= FloorOf(Unwrap(device.ratio_max), size)

\* a result where the cap removed some, not all, of the threshold-pass set
\* over several windows
C3_Witness ==
    /\ ret.status = "ok"
    /\ IsSome(device.threshold) /\ IsSome(device.ratio_max)
    /\ ~IsSome(device.ratio_min)
    /\ WindowSize(prices, device) < Len(prices)
    /\ ret.enabled /= {}
    /\ ret.enabled /= AtOrBelow(Unwrap(device.threshold))

\* the configured window gives a window_size above the number of slots
WindowExceedsSeries ==
    /\ IsSome(device.window)
    /\ Len(prices) > 1
    /\ Unwrap(device.window) \div Interval(prices) > Len(prices)

\* C4: when window_size exceeds the number of slots both ratio passes change
\* nothing: the result is the threshold-pass set, or empty without threshold.
C4_WindowLargerThanSeries ==
    (ret /= NotCalled /\ WindowExceedsSeries) =>
        /\ ret.status = "ok"
        /\ ret.enabled = IF IsSome(device.threshold)
                         THEN AtOrBelow(Unwrap(device.threshold))
                         ELSE {}

\* such a call where the threshold pass enabled some but not all slots and
\* both ratios are set
C4_Witness ==
    /\ ret /= NotCalled /\ WindowExceedsSeries
    /\ IsSome(device.threshold)
    /\ IsSome(device.ratio_min) /\ IsSome(device.ratio_max)
    /\ Unwrap(device.ratio_min)[1] > 0
    /\ ret.enabled /= {}
    /\ Cardinality(ret.enabled) < Len(prices)

\* C5: for a series of exactly one slot and a device with ratio_min or
\* ratio_max, satisfy_constraints completes normally (window_size 1) and
\* returns an enabled set.
C5_SingleSlotReturns ==
    (/\ ret /= NotCalled
     /\ Len(prices) = 1
     /\ (IsSome(device.ratio_min) \/ IsSome(device.ratio_max))) =>
        ret.status = "ok"

\* ------------------------------------------------------------------ main claims
\* position of a device name in the device order
DeviceIndex(name) == CHOOSE k \in 1..Len(DeviceNames) : DeviceNames[k] = name
\* the commands executed for device k and the slot of instant t
CommandsFor(k, t) ==
    {i \in 1..Len(commands) :
        commands[i].dev_name = DeviceNames[k] /\ commands[i].timestamp = t}
\* the device lines printed for the slot of instant t
DeviceLinesFor(t) == {i \in 1..Len(dev_reports) : dev_reports[i].timestamp = t}
Reported == {reports[i] : i \in 1..Len(reports)}
\* the loop over the devices has not yet passed device k of the slot of
\* instant t (it is inside that slot, or a launch failure ended it there)
NotYetPassed(k, t) ==
    /\ dev >= 1
    /\ t = consumer_prices[slot].timestamp
    /\ k >= dev

\* C6: with dry_run the loop fetches one day only, reports every slot of its
\* series in order (past ones included) with a line per device, never
\* sleeps, skips or runs a command, is never blocked while Executing, and
\* ends in Done; the only other ends are a failed fetch and a panic of the
\* solver.
C6_DryRunOneDay ==
    dry_run =>
        /\ Len(fetched) <= 1
        /\ sleeps = 0 /\ commands = <<>> /\ skipped = {}
        /\ pc = "Done" =>
            /\ Len(fetched) = 1
            /\ market_prices /= <<>>
            /\ reports = [i \in 1..Len(market_prices) |-> market_prices[i].timestamp]
            /\ \A t \in Reported : Cardinality(DeviceLinesFor(t)) = Len(DeviceNames)
        /\ pc = "Executing" => ENABLED (ReportSlot \/ DeviceStep \/ Finish)
        /\ pc = "Failed" => market_prices = <<>>
        /\ pc = "Panicked" =>
            \E k \in 1..Len(devices) :
                satisfy_constraints(consumer_prices, devices[k]).status = "panic"

\* a dry run that ended in Done after reporting a full day whose first slot
\* was already past when the process started
C6_Witness ==
    /\ dry_run /\ pc = "Done"
    /\ Len(reports) = TicksPerDay
    /\ reports[1] < start_time

\* C7: without dry_run, every slot that was reported (not skipped) has, for
\* every device the loop has passed, exactly one command, cmd_on iff the
\* slot is in the device's enabled set for the day; commands exist for
\* reported slots only and never twice for a device and an instant.
C7_OneCommandPerSlot ==
    ~dry_run =>
        /\ \A t \in Reported : \A k \in 1..Len(DeviceNames) :
            Cardinality(CommandsFor(k, t)) = IF NotYetPassed(k, t) THEN 0 ELSE 1
        /\ \A i \in 1..Len(commands) :
            /\ commands[i].timestamp \in Reported
            /\ commands[i].timestamp \in Timestamps(consumer_prices) =>
                (commands[i].cmd = "cmd_on" <=>
                    commands[i].timestamp \in
                        satisfy_constraints(consumer_prices,
                            devices[DeviceIndex(commands[i].dev_name)]).enabled)
            /\ commands[i].cmd \in {"cmd_on", "cmd_off"}
        /\ \A i, j \in 1..Len(commands) :
            (commands[i].dev_name = commands[j].dev_name
                /\ commands[i].timestamp = commands[j].timestamp) => i = j

\* a run over two days with a skipped slot, a cmd_on and a cmd_off, no
\* launch failure
C7_Witness ==
    /\ ~dry_run /\ pc = "Fetching" /\ Len(fetched) = 2
    /\ skipped /= {}
    /\ \E i, j \in 1..Len(commands) :
        /\ commands[i].cmd = "cmd_on" /\ commands[j].cmd = "cmd_off"
        /\ commands[i].timestamp < fetched[2] /\ commands[j].timestamp >= fetched[2]

\* the outer loop is at a slot whose instant is strictly before the clock
AtPastSlot ==
    /\ ~dry_run
    /\ pc = "Executing" /\ dev = 0
    /\ slot <= Len(consumer_prices)
    /\ consumer_prices[slot].timestamp < now

\* C8: without dry_run, when the loop reaches a slot whose instant is
\* strictly before the clock, its step skips the slot and prints and runs
\* nothing; a skipped slot never has a slot line, a device line or a command.
C8_PastSlotSkipped ==
    /\ [][(AtPastSlot /\ Step) =>
            /\ slot' = slot + 1 /\ dev' = 0 /\ pc' = "Executing"
            /\ consumer_prices[slot].timestamp \in skipped'
            /\ UNCHANGED <<reports, dev_reports, commands, sleeps>>]_vars
    /\ [](\A t \in skipped :
            /\ t \notin Reported
            /\ DeviceLinesFor(t) = {}
            /\ \A k \in 1..Len(DeviceNames) : CommandsFor(k, t) = {})

\* a slot was skipped and a later slot of the same day got its commands
C8_Witness ==
    /\ ~dry_run
    /\ \E t \in skipped : \E i \in 1..Len(commands) :
        /\ commands[i].timestamp > t
        /\ commands[i].timestamp < Midnight(t) + TicksPerDay

\* C9 as stated: the first day is the one starting at the next midnight at
\* or after the start without dry_run, and the current day with dry_run.
C9_FirstDayNextMidnight ==
    fetched /= <<>> =>
        LET d == fetched[1]
        IN  /\ (d + TzOffset) % TicksPerDay = 0
            /\ IF dry_run
               THEN d <= start_time /\ start_time < d + TicksPerDay
               ELSE d >= start_time /\ d - TicksPerDay < start_time

\* C9 amended: in both modes the first day is the current day, the one that
\* contains the start instant.
C9_FirstDayIsToday ==
    fetched /= <<>> =>
        LET d == fetched[1]
        IN  /\ (d + TzOffset) % TicksPerDay = 0
            /\ d <= start_time /\ start_time < d + TicksPerDay

\* without dry_run, started after midnight, a command ran for a slot of the
\* current day
C9_Witness ==
    /\ ~dry_run
    /\ fetched /= <<>> /\ fetched[1] < start_time
    /\ \E i \in 1..Len(commands) : commands[i].timestamp < fetched[1] + TicksPerDay

\* C10: without dry_run Done is never reached, the fetched days go up by
\* exactly one day, and after the last slot of day d the loop is at Fetching
\* for day d + 1.
C10_NextDayForever ==
    ~dry_run =>
        /\ pc /= "Done"
        /\ \A i \in 1..(Len(fetched) - 1) : fetched[i + 1] = fetched[i] + TicksPerDay
        /\ (pc \in {"Adjusting", "Solving", "Executing"}) => day = fetched[Len(fetched)]
        /\ (pc = "Fetching" /\ fetched /= <<>>) =>
            day = fetched[Len(fetched)] + TicksPerDay
        /\ (pc = "Executing" /\ dev = 0 /\ slot > Len(consumer_prices)) =>
            ENABLED NextDay

\* the loop came back to Fetching after executing its second day
C10_Witness ==
    /\ ~dry_run /\ pc = "Fetching"
    /\ Len(fetched) = 2
    /\ day = fetched[1] + 2 * TicksPerDay
    /\ commands /= <<>>

\* the instant of the slot the loop over the devices is at
CurrentInstant == consumer_prices[slot].timestamp

\* C11: without dry_run, a step of the loop over the devices that prints the
\* device line but runs no command (the launch failed) ends the process in
\* Failed; Failed is final (no step leaves it, so no later command, slot or
\* day), and in it neither the failing device nor a later device of the slot
\* nor any later slot has a command.
C11_LaunchFailureEnds ==
    /\ [][(~dry_run /\ dev_reports' /= dev_reports /\ commands' = commands)
            => pc' = "Failed"]_vars
    /\ [][pc /= "Failed"]_vars
    /\ []((~dry_run /\ pc = "Failed" /\ dev >= 1) =>
            /\ \A k \in dev..Len(DeviceNames) : CommandsFor(k, CurrentInstant) = {}
            /\ \A i \in 1..Len(commands) : commands[i].timestamp <= CurrentInstant)

\* the launch failed at the first device of a slot that is not the last of
\* its day, after commands of an earlier slot had run
C11_Witness ==
    /\ ~dry_run /\ pc = "Failed"
    /\ dev = 1 /\ slot < Len(consumer_prices)
    /\ commands /= <<>>
    /\ dev_reports[Len(dev_reports)].timestamp = CurrentInstant

\* C12: without dry_run, a step that runs a command leaves the loop in
\* Executing at the next device (or the next slot after the last device)
\* whatever exit code the command returns, and with every exit code
\* (0, non-zero, none) the step is possible and leads to that same position.
C12_ExitCodeIgnored ==
    /\ [][(~dry_run /\ commands' /= commands) =>
            /\ exit_code' \in ExitCodes
            /\ pc' = "Executing"
            /\ dev' = AfterDevice(dev)
            /\ slot' = IF dev = Len(DeviceNames) THEN slot + 1 ELSE slot
            /\ UNCHANGED <<dayVars, confVars, now, fetched, reports, skipped>>]_vars
    /\ []((~dry_run /\ pc = "Executing" /\ dev >= 1) =>
            \A code \in ExitCodes :
                ENABLED (DeviceStep /\ exit_code' = code /\ pc' = "Executing"
                            /\ dev' = AfterDevice(dev)))

\* a command returned exit code 1 and the loop is at the next device of the
\* same slot
C12_Witness ==
    /\ ~dry_run /\ pc = "Executing"
    /\ exit_code = Some(1)
    /\ dev = 2
    /\ CommandsFor(1, CurrentInstant) /= {}

\* C14: while Executing every device's set is the one satisfy_constraints
\* returns for the day's adjusted series; before Executing (Fetching,
\* Adjusting, Solving of day d) nothing of day d or later has been reported
\* or run; and no step inside Executing changes a set or the series.
C14_EnabledSetsFrozen ==
    /\ [](pc = "Executing" =>
            /\ Len(thresholds) = Len(devices)
            /\ \A k \in 1..Len(devices) :
                thresholds[k] = satisfy_constraints(consumer_prices, devices[k]).enabled)
    /\ [](pc \in {"Fetching", "Adjusting", "Solving"} =>
            /\ \A t \in Reported : t < day
            /\ \A i \in 1..Len(dev_reports) : dev_reports[i].timestamp < day
            /\ \A i \in 1..Len(commands) : commands[i].timestamp < day)
    /\ [][(pc = "Executing" /\ pc' = "Executing") =>
            UNCHANGED <<thresholds, consumer_prices, market_prices, day>>]_vars

\* the second day is Executing past its first slot, commands of that day have
\* run, and some device's set is neither empty nor the whole day
C14_Witness ==
    /\ ~dry_run /\ pc = "Executing" /\ Len(fetched) = 2
    /\ slot >= 2
    /\ \E i \in 1..Len(commands) : commands[i].timestamp >= day
    /\ \E k \in 1..Len(thresholds) :
        /\ thresholds[k] /= {}
        /\ thresholds[k] /= Timestamps(consumer_prices)

\* C15: the executed commands, in the order of their execution, go up by the
\* slot's instant and, within one instant, by the device's place in the key
\* order of the devices map (DeviceNames lists the keys in that order); a
\* step runs at most one command, appended after all earlier ones.
C15_CommandOrder ==
    /\ [](\A i, j \in 1..Len(commands) : i < j =>
            \/ commands[i].timestamp < commands[j].timestamp
            \/ /\ commands[i].timestamp = commands[j].timestamp
               /\ DeviceIndex(commands[i].dev_name) < DeviceIndex(commands[j].dev_name))
    /\ [][\/ commands' = commands
          \/ /\ Len(commands') = Len(commands) + 1
             /\ SubSeq(commands', 1, Len(commands)) = commands]_vars

\* both devices ran for one slot, and commands ran on two days
C15_Witness ==
    /\ ~dry_run /\ Len(fetched) = 2
    /\ Len(commands) >= 4
    /\ commands[1].timestamp = commands[2].timestamp
    /\ commands[1].dev_name /= commands[2].dev_name
    /\ commands[Len(commands)].timestamp >= fetched[2]

\* C16: without dry_run, the step that prints a slot line, a device line or
\* runs a command for the slot of instant t ends with the clock at or after t.
C16_NotBeforeSlot ==
    [][~dry_run =>
        /\ reports' /= reports => now' >= reports'[Len(reports')]
        /\ dev_reports' /= dev_reports =>
            now' >= dev_reports'[Len(dev_reports')].timestamp
        /\ commands' /= commands =>
            now' >= commands'[Len(commands')].timestamp]_vars

\* a command ran for a slot that was still ahead when the process started
C16_Witness ==
    /\ ~dry_run /\ commands /= <<>>
    /\ sleeps >= 1
    /\ commands[Len(commands)].timestamp > start_time
    /\ now >= commands[Len(commands)].timestamp

\* local hour of day (0..23) and day of week (0 = Monday .. 6 = Sunday) of
\* the price add_grid_rate was given
GridLocalHour == (grid.point.timestamp + grid.utc_offset) % 24
GridLocalDay == ((grid.point.timestamp + grid.utc_offset) \div 24) % 7

\* C13: add_grid_rate returns the price plus package.day when the local hour
\* is in 7..21 on Monday to Friday, the price plus package.night at every
\* other local hour (22 and 6 included) and at every hour of Saturday and
\* Sunday; the timestamp is the one it was given.
C13_GridRate ==
    grid.adjusted /= None =>
        LET adjusted == Unwrap(grid.adjusted)
        IN  /\ adjusted.timestamp = grid.point.timestamp
            /\ (GridLocalHour \in 7..21 /\ GridLocalDay \in 0..4) =>
                adjusted.price = grid.point.price + grid.package.day
            /\ (GridLocalHour \notin 7..21 \/ GridLocalDay \in {5, 6}) =>
                adjusted.price = grid.point.price + grid.package.night
            /\ GridLocalHour \in {6, 22} =>
                adjusted.price = grid.point.price + grid.package.night

\* Friday 22:00 local time got the night rate of a tariff whose rates differ
C13_Witness ==
    /\ grid.adjusted /= None
    /\ GridLocalHour = 22 /\ GridLocalDay = 4
    /\ grid.package.day /= grid.package.night
    /\ Unwrap(grid.adjusted).price = grid.point.price + grid.package.night

\* the number of slots of the window starting at slot i that come before
\* slot j when the window is ordered by price, equal prices by time
Rank(i, size, j) ==
    Cardinality({m \in i..(i + size - 1) :
        \/ prices[m].price < prices[j].price
        \/ prices[m].price = prices[j].price /\ m < j})
\* the slots that are among the n first of some window in that order
RankedBelow(size, n) ==
    {prices[j].timestamp : j \in {m \in 1..Len(prices) :
        \E i \in WindowStarts(size) : m \in i..(i + size - 1) /\ Rank(i, size, m) < n}}
\* the slots that are not among the n first of some window in that order
RankedFrom(size, n) ==
    {prices[j].timestamp : j \in {m \in 1..Len(prices) :
        \E i \in WindowStarts(size) : m \in i..(i + size - 1) /\ Rank(i, size, m) >= n}}

\* C17: for a device with threshold, ratio_max and ratio_min, the returned
\* set is the threshold set minus what the ratio-max pass removes (the slots
\* ranked from floor(ratio_max * size) on in some window) plus, added last
\* and whatever was removed, the ceil(ratio_min * size) cheapest slots of
\* every window.
C17_MinPassOverridesMax ==
    (ret.status = "ok" /\ IsSome(device.threshold)
        /\ IsSome(device.ratio_max) /\ IsSome(device.ratio_min)) =>
        LET size == WindowSize(prices, device)
            cap == FloorOf(Unwrap(device.ratio_max), size)
            need == CeilOf(Unwrap(device.ratio_min), size)
        IN  ret.enabled =
                (AtOrBelow(Unwrap(device.threshold)) \ RankedFrom(size, cap))
                    \cup RankedBelow(size, need)

\* a returned set that holds a slot the ratio-max pass had removed, with a
\* window that holds more than floor(ratio_max * size) enabled slots
C17_Witness ==
    /\ ret.status = "ok" /\ IsSome(device.threshold)
    /\ IsSome(device.ratio_max) /\ IsSome(device.ratio_min)
    /\ LET size == WindowSize(prices, device)
           cap == FloorOf(Unwrap(device.ratio_max), size)
       IN  /\ (AtOrBelow(Unwrap(device.threshold)) \cap RankedFrom(size, cap))
                \cap ret.enabled /= {}
           /\ \E i \in WindowStarts(size) : EnabledIn(i, size) > cap

\* C18: slots of equal price rank by time, the earlier first. With ratio_min
\* alone the returned set is exactly the slots among the
\* ceil(ratio_min * size) first of some window in the order by price, then
\* time; with threshold and ratio_max and no ratio_min it is the threshold
\* set minus the slots ranked from floor(ratio_max * size) on in some window
\* in that order.
C18_TiesByTime ==
    /\ (ret.status = "ok" /\ IsSome(device.ratio_min) /\ ~IsSome(device.threshold)) =>
        LET size == WindowSize(prices, device)
        IN  ret.enabled = RankedBelow(size, CeilOf(Unwrap(device.ratio_min), size))
    /\ (ret.status = "ok" /\ IsSome(device.threshold) /\ IsSome(device.ratio_max)
            /\ ~IsSome(device.ratio_min)) =>
        LET size == WindowSize(prices, device)
        IN  ret.enabled = AtOrBelow(Unwrap(device.threshold))
                            \ RankedFrom(size, FloorOf(Unwrap(device.ratio_max), size))

\* ratio_min alone: two slots of one price of which the need of every window
\* that holds the later one is met without it; the earlier is in the
\* returned set and the later is not
C18_Witness ==
    /\ ret.status = "ok" /\ IsSome(device.ratio_min) /\ ~IsSome(device.threshold)
    /\ \E j, k \in 1..Len(prices) :
        /\ j < k /\ prices[j].price = prices[k].price
        /\ k - j < WindowSize(prices, device)
        /\ prices[j].timestamp \in ret.enabled
        /\ prices[k].timestamp \notin ret.enabled

\* C19 as stated: on a series of two or more slots, every call returns.
C19_AlwaysReturns ==
    (ret /= NotCalled /\ Len(prices) >= 2) => ret.status = "ok"

\* C20: with threshold and ratio_min and no ratio_max, every slot priced at
\* or below the threshold is in the returned set.
C20_ThresholdKept ==
    (ret.status = "ok" /\ IsSome(device.threshold) /\ IsSome(device.ratio_min)
        /\ ~IsSome(device.ratio_max)) =>
        AtOrBelow(Unwrap(device.threshold)) \subseteq ret.enabled

\* a slot at or below the threshold that no window ranks among its cheapest
\* is in the returned set, next to a slot above the threshold that the
\* ratio-min pass added
C20_Witness ==
    /\ ret.status = "ok" /\ IsSome(device.threshold) /\ IsSome(device.ratio_min)
    /\ ~IsSome(device.ratio_max)
    /\ LET size == WindowSize(prices, device)
           need == CeilOf(Unwrap(device.ratio_min), size)
       IN  /\ (AtOrBelow(Unwrap(device.threshold)) \cap ret.enabled)
                \ RankedBelow(size, need) /= {}
           /\ ret.enabled \ AtOrBelow(Unwrap(device.threshold)) /= {}

====
